---- MODULE Spec2Model ----
(***************************************************************************)
(* Model of the item-normalisation and lineup-selection pipeline of        *)
(* daily_brief.py: load_categorized_feeds, fetch_items (entry filtering,   *)
(* item building, deduplication, recency sort), pick_items, build_lineup.  *)
(*                                                                         *)
(* Strings are sequences of tokens (the empty sequence is the empty        *)
(* string); None is the empty sequence, a present value v is <<v>>.        *)
(* Instants are integers counted in hours.  stable_id hashes               *)
(* normalize_title(title) + "|" + canonicalize_url(url); the digest is     *)
(* modelled as the pair it hashes (no collisions).                         *)
(***************************************************************************)
EXTENDS Integers, Sequences, FiniteSets, TLC

\* ---------------------------------------------------------------- bounds
\* datetime.now(timezone.utc), in hours
Now == 45
\* entries delivered by all feeds of one run (general pipeline)
MaxEntries == 2
\* distinct stories the feeds of the general pipeline report
MaxStories == 2
\* entries delivered by the TOP feed of the TOP-heavy pipeline
MaxTopEntries == 6
\* length of the item sequence handed directly to build_lineup
MaxItems == 3
\* largest min/max of the plans handed directly to build_lineup
MaxQuota == 2

\* ------------------------------------------------------ program constants
LOOKBACK_HOURS == 36

Categories ==
  {"TOP", "US_POLITICS", "FOREIGN_POLICY", "WORLD", "BUSINESS", "TECH", "SPORTS"}

TopicalCats ==
  <<"US_POLITICS", "FOREIGN_POLICY", "WORLD", "BUSINESS", "TECH", "SPORTS">>

PLAN ==
  [c \in Categories |->
     CASE c = "TOP"    -> [min |-> 5, max |-> 5]
       [] c = "SPORTS" -> [min |-> 1, max |-> 1]
       [] OTHER        -> [min |-> 1, max |-> 2]]

TRACKING_PARAMS == {"fbclid", "gclid", "ref"}
\* query keys of the model that start with a prefix of TRACKING_PREFIXES ("utm_")
TRACKING_PREFIXES == {"utm_source", "utm_medium"}
LIVE_UPDATE_PATTERNS == {"live"}

\* ---------------------------------------------------------------- helpers
Min2(a, b) == IF a < b THEN a ELSE b

Range(s) == {s[i] : i \in 1..Len(s)}

\* Python's str < str: lexicographic, a proper prefix is smaller
StrLess(a, b) ==
  \/ \E i \in 1..Min2(Len(a), Len(b)) :
        /\ \A j \in 1..(i - 1) : a[j] = b[j]
        /\ a[i] < b[i]
  \/ /\ Len(a) < Len(b)
     /\ \A j \in 1..Len(a) : a[j] = b[j]

\* datetime.isoformat() of a whole-second UTC instant: fixed width, zero padded
IsoFormat(t) == <<t \div 10, t % 10>>

\* canonicalize_url: drop tracking query parameters and the fragment
canonicalize_url(url) ==
  SelectSeq(url, LAMBDA k : k \notin TRACKING_PARAMS
                            /\ k \notin TRACKING_PREFIXES
                            /\ k # "#fragment")

\* normalize_title: lowercase, collapse whitespace, strip punctuation
normalize_title(title) == SelectSeq(title, LAMBDA w : w # "!")

stable_id(title, url) == <<normalize_title(title), canonicalize_url(url)>>

looks_like_live_update(title) ==
  \E w \in Range(title) : w \in LIVE_UPDATE_PATTERNS

\* entry.get("published_parsed") or entry.get("updated_parsed"); None if neither
parse_entry_datetime(e) ==
  IF e.published_parsed # <<>> THEN e.published_parsed ELSE e.updated_parsed

\* cutoff = now - timedelta(hours=LOOKBACK_HOURS)
Cutoff == Now - LOOKBACK_HOURS

\* ------------------------------------------------------------ feeds.txt
\* A line of feeds.txt after strip(): blank, a # comment, a line with no '|'
\* ("bad"), or category|url.
BlankLine   == [kind |-> "blank",   category |-> "", url |-> ""]
CommentLine == [kind |-> "comment", category |-> "", url |-> ""]
BadLine     == [kind |-> "bad",     category |-> "", url |-> ""]
FeedLine(c) == [kind |-> "feed",    category |-> c,  url |-> c]

\* faulty variant: a line without '|' is skipped like a comment
RECURSIVE LoadFromSkipBad(_, _, _)
LoadFromSkipBad(lines, i, acc) ==
  IF i > Len(lines) THEN [error |-> FALSE, feeds |-> acc]
  ELSE IF lines[i].kind \in {"blank", "comment", "bad"}
       THEN LoadFromSkipBad(lines, i + 1, acc)
       ELSE LoadFromSkipBad(lines, i + 1,
              Append(acc, [category |-> lines[i].category, url |-> lines[i].url]))

RECURSIVE LoadFrom(_, _, _)
LoadFrom(lines, i, acc) ==
  IF i > Len(lines) THEN [error |-> FALSE, feeds |-> acc]
  ELSE IF lines[i].kind \in {"blank", "comment"} THEN LoadFrom(lines, i + 1, acc)
  ELSE IF lines[i].kind = "bad" THEN [error |-> TRUE, feeds |-> <<>>]
  ELSE LoadFrom(lines, i + 1,
                Append(acc, [category |-> lines[i].category, url |-> lines[i].url]))

\* the whole file is read before anything is returned; a bad line raises ValueError
load_categorized_feeds(lines) == LoadFrom(lines, 1, <<>>)

\* ------------------------------------------------------------- fetch_items
\* faulty variant: the lookback test is missing
KeepEntryAnyAge(e) ==
  /\ e.title # <<>>
  /\ e.link # <<>>
  /\ parse_entry_datetime(e) # <<>>

\* faulty variant: an entry dated exactly at the cutoff is dropped
KeepEntryAfterCutoff(e) ==
  /\ e.title # <<>>
  /\ e.link # <<>>
  /\ parse_entry_datetime(e) # <<>>
  /\ parse_entry_datetime(e)[1] > Cutoff

\* the two continue-guards of the entry loop
KeepEntry(e) ==
  /\ e.title # <<>>
  /\ e.link # <<>>
  /\ parse_entry_datetime(e) # <<>>
  /\ ~(parse_entry_datetime(e)[1] < Cutoff)

MakeItem(e, category, url) ==
  [id             |-> stable_id(e.title, canonicalize_url(e.link)),
   title          |-> e.title,
   url            |-> canonicalize_url(e.link),
   published_utc  |-> IsoFormat(parse_entry_datetime(e)[1]),
   category       |-> category,
   feed           |-> url,
   is_live_update |-> looks_like_live_update(e.title)]

\* the inner loop over feed.entries: the items appended to raw for one feed
RECURSIVE ItemsOfFeed(_, _, _)
ItemsOfFeed(entries, category, url) ==
  IF entries = <<>> THEN <<>>
  ELSE LET rest == ItemsOfFeed(Tail(entries), category, url)
       IN  IF KeepEntry(Head(entries))
           THEN <<MakeItem(Head(entries), category, url)>> \o rest
           ELSE rest

\* faulty variant: the comparison is reversed, the older variant wins
ReplacesOlder(it, existing) == StrLess(it.published_utc, existing.published_utc)

\* faulty variant: >= instead of >, the later ingested variant wins a tie
ReplacesOnTie(it, existing) == ~StrLess(it.published_utc, existing.published_utc)

\* it replaces the stored item of its id
Replaces(it, existing) == StrLess(existing.published_utc, it.published_utc)

\* one iteration of the dedup loop; d is the dict as its values in key order
DedupInsert(d, it) ==
  IF \E k \in 1..Len(d) : d[k].id = it.id
  THEN [k \in 1..Len(d) |->
          IF d[k].id = it.id /\ Replaces(it, d[k]) THEN it ELSE d[k]]
  ELSE Append(d, it)

RECURSIVE DedupFrom(_, _, _)
DedupFrom(r, i, d) ==
  IF i > Len(r) THEN d ELSE DedupFrom(r, i + 1, DedupInsert(d, r[i]))

Dedup(r) == DedupFrom(r, 1, <<>>)

\* faulty variant: reverse=True is missing, the sort is ascending
InsertAsc(sorted, x) ==
  LET n == Cardinality({k \in 1..Len(sorted) :
                          ~StrLess(x.published_utc, sorted[k].published_utc)})
  IN  SubSeq(sorted, 1, n) \o <<x>> \o SubSeq(sorted, n + 1, Len(sorted))

\* list.sort(key=published_utc, reverse=True) is stable: x goes after every
\* element whose key is not smaller than its own
InsertDesc(sorted, x) ==
  LET n == Cardinality({k \in 1..Len(sorted) :
                          ~StrLess(sorted[k].published_utc, x.published_utc)})
  IN  SubSeq(sorted, 1, n) \o <<x>> \o SubSeq(sorted, n + 1, Len(sorted))

RECURSIVE SortFrom(_, _, _)
SortFrom(s, i, acc) ==
  IF i > Len(s) THEN acc ELSE SortFrom(s, i + 1, InsertDesc(acc, s[i]))

SortItems(s) == SortFrom(s, 1, <<>>)

\* ------------------------------------------------- pick_items, build_lineup
\* faulty variant: the used_ids test is missing
RECURSIVE PickFromReuse(_, _, _, _, _, _, _)
PickFromReuse(its, i, category, used, count, avoid, picks) ==
  IF i > Len(its) THEN [picks |-> picks, used |-> used]
  ELSE IF \/ its[i].category # category
          \/ (avoid /\ its[i].is_live_update)
       THEN PickFromReuse(its, i + 1, category, used, count, avoid, picks)
       ELSE IF Len(picks) + 1 >= count
            THEN [picks |-> Append(picks, its[i]), used |-> used \cup {its[i].id}]
            ELSE PickFromReuse(its, i + 1, category, used \cup {its[i].id}, count,
                               avoid, Append(picks, its[i]))

RECURSIVE PickFrom(_, _, _, _, _, _, _)
PickFrom(its, i, category, used, count, avoid, picks) ==
  IF i > Len(its) THEN [picks |-> picks, used |-> used]
  ELSE IF \/ its[i].id \in used
          \/ its[i].category # category
          \/ (avoid /\ its[i].is_live_update)
       THEN PickFrom(its, i + 1, category, used, count, avoid, picks)
       ELSE IF Len(picks) + 1 >= count
            THEN [picks |-> Append(picks, its[i]), used |-> used \cup {its[i].id}]
            ELSE PickFrom(its, i + 1, category, used \cup {its[i].id}, count,
                          avoid, Append(picks, its[i]))

pick_items(its, category, used, count, avoid) ==
  PickFrom(its, 1, category, used, count, avoid, <<>>)

\* faulty variant: TOP gets the second pass of the topical categories
PickTopTwoPass(its, p) ==
  LET first == pick_items(its, "TOP", {}, p["TOP"].max, TRUE)
  IN  IF Len(first.picks) < p["TOP"].min
      THEN LET more == pick_items(its, "TOP", first.used,
                                  p["TOP"].min - Len(first.picks), FALSE)
           IN  [picks |-> first.picks \o more.picks, used |-> more.used]
      ELSE first

\* lineup["TOP"] = pick_items(items, "TOP", used_ids, PLAN["TOP"]["max"], True)
PickTop(its, p) == pick_items(its, "TOP", {}, p["TOP"].max, TRUE)

\* faulty variant: the second pass fills up to max
SecondCountToMax(q, got) == q.max - got

\* the count handed to the second pass
SecondCount(q, got) == q.min - got

\* the body of the loop over the topical categories
PickTopical(its, cat, used, p) ==
  LET first == pick_items(its, cat, used, p[cat].max, TRUE)
  IN  IF Len(first.picks) < p[cat].min
      THEN LET more == pick_items(its, cat, first.used,
                                  SecondCount(p[cat], Len(first.picks)), FALSE)
           IN  [picks |-> first.picks \o more.picks, used |-> more.used]
      ELSE first

RECURSIVE LineupFrom(_, _, _, _, _)
LineupFrom(its, p, k, used, lineup) ==
  IF k > Len(TopicalCats) THEN lineup
  ELSE LET r == PickTopical(its, TopicalCats[k], used, p)
       IN  LineupFrom(its, p, k + 1, r.used,
                      [lineup EXCEPT ![TopicalCats[k]] = r.picks])

build_lineup(its, p) ==
  LET top == PickTop(its, p)
  IN  LineupFrom(its, p, 1, top.used,
                 [c \in Categories |-> IF c = "TOP" THEN top.picks ELSE <<>>])

\* ----------------------------------------------------- inputs of the model
\* the headline / path word of story n
Words == <<"alpha", "bravo", "charlie", "delta", "echo", "foxtrot", "golf", "hotel">>

Headline(n, live) == IF live THEN <<"live", Words[n]>> ELSE <<Words[n]>>

Entry(title, link, published, updated) ==
  [title |-> title, link |-> link,
   published_parsed |-> published, updated_parsed |-> updated]

\* one hour before the cutoff, the cutoff itself, one hour after it
Times == {Cutoff - 1, Cutoff, Cutoff + 1}

WellFormedEntries ==
  {Entry(Headline(n, live), <<Words[n]>>, <<t>>, <<>>) :
     n \in 1..MaxStories, live \in BOOLEAN, t \in Times}

\* the same story as story 1 behind punctuation, a tracking parameter and a
\* fragment, dated by its "updated" time only
VariantEntries ==
  {Entry(<<Words[1], "!">>, <<Words[1], "utm_source", "#fragment">>, <<>>, <<Cutoff + 1>>)}

DefectiveEntries ==
  {Entry(<<>>, <<Words[1]>>, <<Cutoff + 1>>, <<>>),
   Entry(<<Words[1]>>, <<>>, <<Cutoff + 1>>, <<>>),
   Entry(<<Words[1]>>, <<Words[1]>>, <<>>, <<>>)}

EntryUniverse == WellFormedEntries \cup VariantEntries \cup DefectiveEntries

FeedCats == {"TOP", "US_POLITICS"}

LineKinds == {BlankLine, CommentLine, BadLine} \cup {FeedLine(c) : c \in FeedCats}

\* every feeds.txt of at most two lines
FeedFiles ==
  {<<>>} \cup {<<a>> : a \in LineKinds} \cup {<<a, b>> : a \in LineKinds, b \in LineKinds}

\* a TOP feed of k distinct stories; f[i] says whether story i is a live
\* update and when it was published
TopEntries(k, f) ==
  [i \in 1..k |-> Entry(Headline(i, f[i][1]), <<Words[i]>>, <<f[i][2]>>, <<>>)]

\* each story live or not, dated at or right after the cutoff
TopKinds == BOOLEAN \X {Cutoff, Cutoff + 1}

\* the items handed directly to build_lineup: any sequence, ids may repeat
ItemUniverse ==
  {MakeItem(Entry(Headline(n, k[2]), <<Words[n]>>, <<Cutoff>>, <<>>), k[1], k[1]) :
     n \in 1..MaxItems,
     k \in {<<"TOP", FALSE>>, <<"US_POLITICS", FALSE>>, <<"US_POLITICS", TRUE>>}}

Quotas == {q \in [min : 0..MaxQuota, max : 0..MaxQuota] : q.min <= q.max}

Plans == {PLAN} \cup {[c \in Categories |-> q] : q \in Quotas}

\* ------------------------------------------------------------------ state
VARIABLES
  pc,         \* position of the run: start, loaded, aborted, fetched, selected
  feedsTxt,   \* the lines of feeds.txt
  plan,       \* the module-level PLAN read by build_lineup
  feeds,      \* the list returned by load_categorized_feeds
  fetched,    \* number of feedparser.parse calls made
  delivered,  \* every entry the feeds yielded, with the category of its feed
  raw,        \* fetch_items' raw list
  items,      \* fetch_items' deduplicated, sorted list
  lineup      \* build_lineup's result

vars == <<pc, feedsTxt, plan, feeds, fetched, delivered, raw, items, lineup>>

EmptyLineup == [c \in Categories |-> <<>>]

InitRun(files) ==
  /\ pc = "start"
  /\ feedsTxt \in files
  /\ plan = PLAN
  /\ feeds = <<>>
  /\ fetched = 0
  /\ delivered = <<>>
  /\ raw = <<>>
  /\ items = <<>>
  /\ lineup = EmptyLineup

Init == InitRun(FeedFiles)

InitTop == InitRun({<<FeedLine("TOP")>>})

\* build_lineup called on its own: any item sequence, any plan
InitLineup ==
  /\ pc = "fetched"
  /\ feedsTxt = <<>>
  /\ plan \in Plans
  /\ feeds = <<>>
  /\ fetched = 0
  /\ delivered = <<>>
  /\ raw = <<>>
  /\ \E k \in 0..MaxItems : items \in [1..k -> ItemUniverse]
  /\ lineup = EmptyLineup

\* feeds = load_categorized_feeds(); ValueError aborts the run
LoadFeeds ==
  /\ pc = "start"
  /\ LET r == load_categorized_feeds(feedsTxt)
     IN  /\ pc' = IF r.error THEN "aborted" ELSE "loaded"
         /\ feeds' = r.feeds
  /\ UNCHANGED <<feedsTxt, plan, fetched, delivered, raw, items, lineup>>

\* the feed loop has an iteration left
MoreFeeds == pc = "loaded" /\ fetched < Len(feeds)

\* one iteration of "for category, url in feeds": parse the feed, filter its
\* entries, append the kept ones to raw
FetchFrom(entries) ==
  /\ LET f == feeds[fetched + 1]
     IN  /\ delivered' = delivered \o
                [i \in 1..Len(entries) |-> [category |-> f.category, entry |-> entries[i]]]
         /\ raw' = raw \o ItemsOfFeed(entries, f.category, f.url)
  /\ fetched' = fetched + 1
  /\ UNCHANGED <<pc, feedsTxt, plan, feeds, items, lineup>>

FetchFeed ==
  /\ MoreFeeds
  /\ \E k \in 0..(MaxEntries - Len(delivered)) :
        \E entries \in [1..k -> EntryUniverse] : FetchFrom(entries)

FetchTopFeed ==
  /\ MoreFeeds
  /\ \E k \in 0..MaxTopEntries :
        \E f \in [1..k -> TopKinds] : FetchFrom(TopEntries(k, f))

\* the dedup loop, list(dedup.values()), the sort, return raw, items
DedupSort ==
  /\ pc = "loaded"
  /\ fetched = Len(feeds)
  /\ items' = SortItems(Dedup(raw))
  /\ pc' = "fetched"
  /\ UNCHANGED <<feedsTxt, plan, feeds, fetched, delivered, raw, lineup>>

\* lineup = build_lineup(items)
BuildLineup ==
  /\ pc = "fetched"
  /\ lineup' = build_lineup(items, plan)
  /\ pc' = "selected"
  /\ UNCHANGED <<feedsTxt, plan, feeds, fetched, delivered, raw, items>>

Next == LoadFeeds \/ FetchFeed \/ DedupSort \/ BuildLineup

NextTop == LoadFeeds \/ FetchTopFeed \/ DedupSort \/ BuildLineup

Spec == Init /\ [][Next]_vars

SpecTop == InitTop /\ [][NextTop]_vars

SpecLineup == InitLineup /\ [][BuildLineup]_vars

\* ------------------------------------------------- vocabulary of the claims
Returned == pc \in {"fetched", "selected"}

Selected == pc = "selected"

DistinctIds(s) == \A i, j \in 1..Len(s) : i # j => s[i].id # s[j].id

LineupItems == UNION {Range(lineup[c]) : c \in Categories}

EntryId(e) == stable_id(e.title, canonicalize_url(e.link))

\* the entry has a title, a link and a resolvable timestamp
Complete(e) ==
  /\ e.title # <<>>
  /\ e.link # <<>>
  /\ (e.published_parsed # <<>> \/ e.updated_parsed # <<>>)

Instant(e) ==
  IF e.published_parsed # <<>> THEN e.published_parsed[1] ELSE e.updated_parsed[1]

\* rec is the record built from the delivered entry d
BuiltFrom(rec, d) ==
  /\ rec.id = EntryId(d.entry)
  /\ rec.published_utc = IsoFormat(Instant(d.entry))
  /\ rec.category = d.category

NonLiveOf(c) ==
  {i \in 1..Len(items) : items[i].category = c /\ ~items[i].is_live_update}

LiveOf(c) ==
  {i \in 1..Len(items) : items[i].category = c /\ items[i].is_live_update}

LiveIn(c) == {i \in 1..Len(lineup[c]) : lineup[c][i].is_live_update}

\* C1: the lineup returned by build_lineup holds no item id in the lists of
\* two categories and no id twice in one list, whatever the item sequence
\* (ids may repeat in it) and whatever the plan.
C1_NoIdTwice ==
  Selected =>
    \A c1, c2 \in Categories :
      \A i \in 1..Len(lineup[c1]), j \in 1..Len(lineup[c2]) :
        (c1 # c2 \/ i # j) => lineup[c1][i].id # lineup[c2][j].id

\* an id that occurs under two categories in the input was selected once
C1_Witness ==
  /\ Selected
  /\ \E i, j \in 1..Len(items) :
        /\ i < j
        /\ items[i].id = items[j].id
        /\ items[i].category # items[j].category
        /\ ~items[i].is_live_update
        /\ \E x \in LineupItems : x.id = items[i].id

\* C9 (as stated): for every plan with 0 <= min <= max every category's list
\* holds at most max items.
C9_AtMostMax ==
  Selected => \A c \in Categories : Len(lineup[c]) <= plan[c].max

\* C6: for a working set (distinct ids) and a topical category with n
\* non-live-update items, n < min, and m live-update items, the second pass
\* admits exactly min(m, min - n) live-update items; the category ends with
\* exactly min items whenever n + m >= min.
C6_SecondPassReachesMin ==
  (Selected /\ DistinctIds(items)) =>
    \A k \in 1..Len(TopicalCats) :
      LET c == TopicalCats[k]
          n == Cardinality(NonLiveOf(c))
          m == Cardinality(LiveOf(c))
      IN  n < plan[c].min =>
            /\ Cardinality(LiveIn(c)) = Min2(m, plan[c].min - n)
            /\ (n + m >= plan[c].min => Len(lineup[c]) = plan[c].min)

\* min 1, max 2, two live-update items and nothing else: exactly one is admitted
C6_Witness ==
  /\ Selected
  /\ DistinctIds(items)
  /\ plan["US_POLITICS"] = [min |-> 1, max |-> 2]
  /\ NonLiveOf("US_POLITICS") = {}
  /\ Cardinality(LiveOf("US_POLITICS")) = 2
  /\ Len(lineup["US_POLITICS"]) = 1

\* the instant the story of record rec was last published, from the feeds
Recency(rec) ==
  LET ts == {Instant(delivered[i].entry) : i \in
               {i \in 1..Len(delivered) :
                  Complete(delivered[i].entry) /\ EntryId(delivered[i].entry) = rec.id}}
  IN  CHOOSE t \in ts : \A u \in ts : u <= t

C5_TopMostRecent ==
  Selected =>
    LET top  == lineup["TOP"]
        elig == NonLiveOf("TOP")
    IN  /\ Len(top) = Min2(Cardinality(elig), plan["TOP"].max)
        /\ \A i \in 1..Len(top) : \E j \in elig : items[j] = top[i]
        /\ \A i, j \in 1..Len(top) : i < j => Recency(top[i]) >= Recency(top[j])
        /\ \A j \in elig :
             items[j] \notin Range(top) =>
               \A i \in 1..Len(top) : Recency(top[i]) >= Recency(items[j])

\* six eligible TOP items, delivered out of recency order, five selected
C5_Witness ==
  /\ Selected
  /\ Cardinality(NonLiveOf("TOP")) = 6
  /\ Len(lineup["TOP"]) = 5
  /\ \E i, j \in 1..Len(raw) :
        /\ i < j
        /\ ~raw[i].is_live_update
        /\ ~raw[j].is_live_update
        /\ Recency(raw[i]) < Recency(raw[j])

\* the delivered entries that are complete but older than the cutoff
StaleDelivered ==
  {i \in 1..Len(delivered) :
     Complete(delivered[i].entry) /\ Instant(delivered[i].entry) < Cutoff}

C4_DedupKeepsLatest ==
  Returned =>
    /\ \A i \in 1..Len(raw) :
         Cardinality({k \in 1..Len(items) : items[k].id = raw[i].id}) = 1
    /\ \A k \in 1..Len(items) : items[k] \in Range(raw)
    /\ \A k \in 1..Len(items), i \in 1..Len(raw) :
         items[k].id = raw[i].id =>
           ~StrLess(items[k].published_utc, raw[i].published_utc)

\* two filtered items collide and the later delivered one is the more recent
C4_Witness ==
  /\ Returned
  /\ \E i, j \in 1..Len(raw) :
        /\ i < j
        /\ raw[i].id = raw[j].id
        /\ StrLess(raw[i].published_utc, raw[j].published_utc)

\* C7: an item of the working set or the lineup comes from a delivered entry
\* with a non-empty title, a non-empty link and a resolved timestamp not
\* before the cutoff; an entry dated exactly at the cutoff is kept.
C7_OnlyCompleteRecent ==
  Returned =>
    /\ \A x \in Range(items) \cup LineupItems :
         \E i \in 1..Len(delivered) :
           /\ Complete(delivered[i].entry)
           /\ Instant(delivered[i].entry) >= Cutoff
           /\ BuiltFrom(x, delivered[i])
           /\ x.title = delivered[i].entry.title
    /\ \A i \in 1..Len(delivered) :
         (Complete(delivered[i].entry) /\ Instant(delivered[i].entry) = Cutoff) =>
           /\ \E r \in Range(raw) : BuiltFrom(r, delivered[i])
           /\ \E x \in Range(items) : x.id = EntryId(delivered[i].entry)

\* an entry dated exactly at the cutoff was selected while an incomplete
\* entry was dropped
C7_Witness ==
  /\ Selected
  /\ \E i \in 1..Len(delivered) :
        /\ Complete(delivered[i].entry)
        /\ Instant(delivered[i].entry) = Cutoff
        /\ \E x \in LineupItems : BuiltFrom(x, delivered[i])
  /\ \E i \in 1..Len(delivered) : ~Complete(delivered[i].entry)

\* C8: a non-blank, non-comment line without '|' anywhere in feeds.txt aborts
\* the run before any feed is fetched.
C8_BadLineNoFetch ==
  (\E i \in 1..Len(feedsTxt) : feedsTxt[i].kind = "bad") =>
    /\ fetched = 0
    /\ delivered = <<>>
    /\ pc \in {"start", "aborted"}

\* the run aborted on a bad line that follows a well-formed feed line
C8_Witness ==
  /\ pc = "aborted"
  /\ Len(feedsTxt) = 2
  /\ feedsTxt[1].kind = "feed"
  /\ feedsTxt[2].kind = "bad"
  /\ fetched = 0

\* the first filtered item, in delivery order, among the most recent of its id
FirstLatest(id) ==
  LET same == {i \in 1..Len(raw) : raw[i].id = id}
      best == {i \in same :
                 \A j \in same : ~StrLess(raw[i].published_utc, raw[j].published_utc)}
  IN  CHOOSE i \in best : \A j \in best : i <= j

\* C10: of the entries of one id ingested under several categories the
\* working set keeps the variant with the strictly greatest published_utc,
\* on equal timestamps the one ingested first; the lineup holds the story
\* under that category only.
C10_OneCategoryPerStory ==
  Returned =>
    /\ \A k \in 1..Len(items) : items[k] = raw[FirstLatest(items[k].id)]
    /\ \A c \in Categories : \A x \in Range(lineup[c]) :
         \E k \in 1..Len(items) :
           /\ items[k].id = x.id
           /\ raw[FirstLatest(x.id)].category = c

\* one story under two categories with equal timestamps, selected under the
\* category ingested first
C10_Witness ==
  /\ Selected
  /\ \E i, j \in 1..Len(raw) :
        /\ i < j
        /\ raw[i].id = raw[j].id
        /\ raw[i].category # raw[j].category
        /\ raw[i].published_utc = raw[j].published_utc
        /\ \E x \in Range(lineup[raw[i].category]) : x.id = raw[i].id
====
